---- MODULE Spec2Model ----
(***************************************************************************)
(* Notional exposure aggregation of the IB portfolio viewer.               *)
(*                                                                         *)
(* The portfolio pass (app.py async_get_portfolio_data, the same code as   *)
(* tws_simplified.py get_portfolio_data) is a state machine: account       *)
(* fetch, position fetch, one step per position of the loop, the frame     *)
(* built from the dictionary, the metrics.                                 *)
(*                                                                         *)
(* Units.  Prices, costs and values are whole numbers; the inputs are      *)
(* chosen so that (ask + bid) / 2 is whole.  A delta is kept in tenths     *)
(* (0.7 is 7), a leverage ratio as the text the code stores, in            *)
(* hundredths.  Python's None is the empty tuple, a present number v is    *)
(* the tuple <<v>>.                                                        *)
(***************************************************************************)
EXTENDS Integers, Sequences, FiniteSets, TLC

VARIABLES
    account_summary,           \* what ib.accountSummaryAsync() returns
    positions,                 \* what ib.positionsAsync() returns
    quotes,                    \* the ticker reqMktData gives for a symbol's stock
    pc,                        \* where the pass is
    position_count,            \* positions processed so far
    positions_by_underlying,   \* the dictionary of the pass: keys in insertion order, val
    underlying_price,          \* local of the loop body
    delta,                     \* local of the loop body (tenths)
    option_price,              \* local of the loop body
    marketDataType,            \* the broker session's market data type
    warnings,                  \* st.sidebar.warning calls of the pass
    account_df,                \* the account table of the pass
    result,                    \* what the pass returns
    chain_request,             \* the options browser's request and what the broker holds for it
    chain_pc,                  \* where async_get_options_for_expiration is
    calls,                     \* its list calls
    puts,                      \* its list puts
    options_result,            \* what get_options_for_expiration returns
    upstream,                  \* whether the broker's two requests of the pass succeed
    portfolio_metrics,         \* the metrics placeholder update_portfolio_data fills
    main_content,              \* the tables update_portfolio_data has put into the container
    program,                   \* the script that runs: app.py or tws_simplified.py
    main_pc,                   \* where main() is
    connected,                 \* ib.isConnected()
    client_id,                 \* the client ID drawn and shown to the user
    connect_clientId,          \* the clientId argument of ib.connect
    stop_event,                \* threading.Event of app.py line 70
    portfolio_thread,          \* where the thread running update_portfolio_data is
    options_thread,            \* where the thread running update_options_data is
    ticker_input,              \* the text of "Enter Ticker Symbol"
    search_button,             \* "Search Options" was pressed
    refresh_options,           \* the forced refresh of line 749
    current_ticker,            \* local of update_options_data
    current_expiration,        \* local of update_options_data
    chain_log,                 \* the calls of get_option_chain and what they returned
    expiration_log,            \* the calls of get_options_for_expiration
    options_display,           \* what the placeholder options_display shows
    test_pc,                   \* where the market data test of a test script is
    ticker_data,               \* st.session_state.ticker_data of simple_ib_test.py
    method_log,                \* the methods simple_ib_test.py ran and what each stored
    price_check,               \* what the final price check of simple_ib_test.py found
    requests                   \* the reqMktData requests of minimal_market_data_test.py

vars == <<account_summary, positions, quotes, pc, position_count,
          positions_by_underlying, underlying_price, delta, option_price,
          marketDataType, warnings, account_df, result,
          chain_request, chain_pc, calls, puts, options_result,
          upstream, portfolio_metrics, main_content,
          program, main_pc, connected, client_id, connect_clientId, stop_event,
          portfolio_thread, options_thread, ticker_input, search_button,
          refresh_options, current_ticker, current_expiration, chain_log,
          expiration_log, options_display,
          test_pc, ticker_data, method_log, price_check, requests>>

----------------------------------------------------------------------------
(* Bounds and program constants *)

MaxPositions == 2
MaxStrikes == 2

PlaceholderPrice == 100
option_multiplier == 100
DeltaScale == 10
ItmDelta == 7
OtmDelta == 3
DefaultGamma == 1
DelayedFrozen == 4
LiveData == 1

None == <<>>
Some(v) == <<v>>
Abs(x) == IF x < 0 THEN 0 - x ELSE x

Symbols == {"X", "Y"}

----------------------------------------------------------------------------
(* Price resolution: app.py 197-212 *)

\* "underlying_price is None or underlying_price <= 0"
NoneOrNonPositive(p) == p = None \/ p[1] <= 0

\* truth value of an optional number in "if ticker.ask and ticker.bid"
Truthy(x) == x # None /\ x[1] # 0

\* "(ticker.ask + ticker.bid) / 2 if ticker.ask and ticker.bid else None"
MidPrice(ticker) ==
    IF Truthy(ticker.ask) /\ Truthy(ticker.bid)
    THEN Some((ticker.ask[1] + ticker.bid[1]) \div 2)
    ELSE None

\* PriceTier without the test of line 206: the placeholder for stocks too
PriceTierNoAvgCost(ticker, secType) ==
    IF ~NoneOrNonPositive(ticker.marketPrice) THEN "marketPrice"
    ELSE IF ~NoneOrNonPositive(ticker.last) THEN "last"
    ELSE IF ~NoneOrNonPositive(MidPrice(ticker)) THEN "mid"
    ELSE "placeholder"

\* the tier the code takes the price from
PriceTier(ticker, secType) ==
    IF ~NoneOrNonPositive(ticker.marketPrice) THEN "marketPrice"
    ELSE IF ~NoneOrNonPositive(ticker.last) THEN "last"
    ELSE IF ~NoneOrNonPositive(MidPrice(ticker)) THEN "mid"
    ELSE IF secType = "STK" THEN "avgCost"
    ELSE "placeholder"

\* ResolveUnderlyingPrice with the average cost in place of line 212's placeholder
ResolveUnderlyingPriceNoPlaceholder(ticker, pos) ==
    LET tier == PriceTier(ticker, pos.secType)
    IN  CASE tier = "marketPrice" -> ticker.marketPrice[1]
          [] tier = "last"        -> ticker.last[1]
          [] tier = "mid"         -> MidPrice(ticker)[1]
          [] tier = "avgCost"     -> pos.avgCost
          [] tier = "placeholder" -> pos.avgCost

\* the value of underlying_price after line 212
ResolveUnderlyingPrice(ticker, pos) ==
    LET tier == PriceTier(ticker, pos.secType)
    IN  CASE tier = "marketPrice" -> ticker.marketPrice[1]
          [] tier = "last"        -> ticker.last[1]
          [] tier = "mid"         -> MidPrice(ticker)[1]
          [] tier = "avgCost"     -> pos.avgCost
          [] tier = "placeholder" -> PlaceholderPrice

\* the st.sidebar.warning calls of lines 208 and 211
PriceWarnings(ticker, pos) ==
    LET tier == PriceTier(ticker, pos.secType)
    IN  IF tier = "avgCost"
        THEN {<<"avg cost", pos.symbol, pos.avgCost>>}
        ELSE IF tier = "placeholder"
        THEN {<<"placeholder", pos.symbol, PlaceholderPrice>>}
        ELSE {}

----------------------------------------------------------------------------
(* Delta resolution: app.py 235-264 *)

\* FallbackDelta with the comparisons of lines 259 and 261 made non-strict
FallbackDeltaAtMoney(right, price, strike) ==
    IF right = "C"
    THEN (IF price >= strike THEN ItmDelta ELSE OtmDelta)
    ELSE (IF price <= strike THEN 0 - ItmDelta ELSE 0 - OtmDelta)

\* lines 257-261, in tenths
FallbackDelta(right, price, strike) ==
    IF right = "C"
    THEN (IF price > strike THEN ItmDelta ELSE OtmDelta)
    ELSE (IF price < strike THEN 0 - ItmDelta ELSE 0 - OtmDelta)

\* whether line 239 finds no model greeks, so that the else branch runs
NoModelGreeks(option_ticker) == option_ticker.modelGreeks = None

\* ResolveDelta without lines 239-240 and 251-252: the heuristic in every case
ResolveDeltaHeuristicOnly(option_ticker, right, price, strike) ==
    FallbackDelta(right, price, strike)

\* the value of delta at line 264
ResolveDelta(option_ticker, right, price, strike) ==
    IF ~NoModelGreeks(option_ticker) THEN option_ticker.modelGreeks[1]
    ELSE IF option_ticker.modelGreeksAfter # None THEN option_ticker.modelGreeksAfter[1]
    ELSE FallbackDelta(right, price, strike)

----------------------------------------------------------------------------
(* The dictionary positions_by_underlying and one iteration of the loop *)

EmptyDict == [keys |-> <<>>, val |-> <<>>]

HasKey(d, k) == \E i \in 1..Len(d.keys) : d.keys[i] = k

KeyIndex(d, k) == CHOOSE i \in 1..Len(d.keys) : d.keys[i] = k

Get(d, k) == d.val[KeyIndex(d, k)]

\* lines 217-224
NewRecord(price) ==
    [stock_count |-> 0, stock_value |-> 0, option_notional |-> 0,
     option_actual_value |-> 0, underlying_price |-> price]

SetDefault(d, k, price) ==
    IF HasKey(d, k) THEN d
    ELSE [keys |-> Append(d.keys, k), val |-> Append(d.val, NewRecord(price))]

\* a later lot replaces the earlier ones
AddStockReplace(rec, pos, price) ==
    [rec EXCEPT !.stock_count = pos.position,
                !.stock_value = pos.position * price]

\* lines 228-229
AddStock(rec, pos, price) ==
    [rec EXCEPT !.stock_count = @ + pos.position,
                !.stock_value = @ + pos.position * price]

\* the delta-weighted contracts without the multiplier
OptionNotionalPerContract(d, pos) == (Abs(d) * pos.position) \div DeltaScale

\* lines 264-267: abs_delta * option_multiplier * pos.position
OptionNotional(d, pos) == (Abs(d) * option_multiplier * pos.position) \div DeltaScale

\* lines 270-271: option_price * option_multiplier * abs(pos.position)
OptionValue(price, pos) == price * option_multiplier * Abs(pos.position)

\* One iteration of "for pos in positions" (lines 181-271) on dictionary d.
\* raised: the iteration ends in an exception (option_price None at line 270).
\* A position that is neither 'STK' nor 'OPT' gets its record at lines 217-224
\* and adds nothing to it.
Iteration(d, pos, ticker) ==
    LET price == ResolveUnderlyingPrice(ticker, pos)
        d1    == SetDefault(d, pos.symbol, price)
        k     == KeyIndex(d1, pos.symbol)
        ot    == pos.option_ticker
        dl    == ResolveDelta(ot, pos.right, price, pos.strike)
    IN  IF pos.secType = "STK"
        THEN [dict |-> [d1 EXCEPT !.val[k] = AddStock(@, pos, price)],
              underlying_price |-> price, delta |-> None,
              option_price |-> None, switched |-> FALSE, raised |-> FALSE,
              warnings |-> PriceWarnings(ticker, pos)]
        ELSE IF pos.secType # "OPT"
        THEN [dict |-> d1,
              underlying_price |-> price, delta |-> None,
              option_price |-> None, switched |-> FALSE, raised |-> FALSE,
              warnings |-> PriceWarnings(ticker, pos)]
        ELSE [dict |-> IF ot.marketPrice = None
                       THEN [d1 EXCEPT !.val[k].option_notional = @ + OptionNotional(dl, pos)]
                       ELSE [d1 EXCEPT !.val[k].option_notional = @ + OptionNotional(dl, pos),
                                       !.val[k].option_actual_value =
                                            @ + OptionValue(ot.marketPrice[1], pos)],
              underlying_price |-> price, delta |-> Some(dl),
              option_price |-> ot.marketPrice,
              switched |-> NoModelGreeks(ot),
              raised |-> ot.marketPrice = None,
              warnings |-> PriceWarnings(ticker, pos)]

----------------------------------------------------------------------------
(* The frame and the metrics: app.py 275-322 *)

\* lines 279-293, one row of underlying_data
Row(symbol, data) ==
    LET stock_notional  == data.stock_count * data.underlying_price
        option_notional == data.option_notional * data.underlying_price
    IN  [Symbol |-> symbol,
         StockCount |-> data.stock_count,
         StockValue |-> data.stock_value,
         OptionNotionalSharesX100 |-> data.option_notional,
         OptionNotionalValue |-> option_notional,
         OptionActualValue |-> data.option_actual_value,
         UnderlyingPrice |-> data.underlying_price,
         NPV |-> stock_notional + option_notional]

\* underlying_df: the rows in the dictionary's order
Frame(d) == [i \in 1..Len(d.keys) |-> Row(d.keys[i], d.val[i])]

RECURSIVE SumNPV(_)
\* total_npv, lines 277 and 295
SumNPV(rows) ==
    IF rows = <<>> THEN 0 ELSE rows[1].NPV + SumNPV(Tail(rows))

\* The text of an account value is a sequence of characters.
Digits == <<"0", "1", "2", "3", "4", "5", "6", "7", "8", "9">>

IsDigit(c) == \E i \in 1..10 : Digits[i] = c

DigitValue(c) == (CHOOSE i \in 1..10 : Digits[i] = c) - 1

\* safe_float_conversion lines 30-31: the commas are removed (the currency
\* symbol of the locale does not occur in the texts of the model)
RemoveCommas(s) == SelectSeq(s, LAMBDA c : c # ",")

RECURSIVE DigitsValue(_, _)
DigitsValue(s, acc) ==
    IF s = <<>> THEN acc ELSE DigitsValue(Tail(s), 10 * acc + DigitValue(Head(s)))

AllDigits(s) == s # <<>> /\ \A i \in 1..Len(s) : IsDigit(s[i])

\* app.py 22-42: float(clean_str), 0.0 when the text is no number
safe_float_conversion(value_str) ==
    LET clean_str == RemoveCommas(value_str)
    IN  IF AllDigits(clean_str) THEN DigitsValue(clean_str, 0)
        ELSE IF clean_str # <<>> /\ Head(clean_str) = "-" /\ AllDigits(Tail(clean_str))
        THEN 0 - DigitsValue(Tail(clean_str), 0)
        ELSE 0

\* f"{x:.2f}" of the quotient num / den, den > 0, as hundredths: the
\* nearest hundredth, a tie going to the even one
Format2f(num, den) ==
    LET n == Abs(num) * 100
        q == n \div den
        r == n % den
        up == IF 2 * r > den \/ (2 * r = den /\ q % 2 = 1) THEN q + 1 ELSE q
    IN  IF num < 0 THEN 0 - up ELSE up

\* the NGAV row written before the two tags are read
WithMetricsNgavFirst(adf, total_npv) ==
    IF ~({"NetLiquidation", "GrossPositionValue"} \subseteq DOMAIN adf)
    THEN [t \in DOMAIN adf \cup {"NGAV"} |->
             IF t = "NGAV" THEN [currency |-> total_npv] ELSE adf[t]]
    ELSE LET nlv == safe_float_conversion(adf["NetLiquidation"])
             gross_pos_val == safe_float_conversion(adf["GrossPositionValue"])
             notional_leverage_ratio == IF nlv > 0 THEN Format2f(total_npv, nlv) ELSE 0
             standard_leverage_ratio == IF nlv > 0 THEN Format2f(gross_pos_val, nlv) ELSE 0
         IN  [t \in DOMAIN adf \cup {"NGAV", "NLR", "Standard Leverage Ratio"} |->
                 IF t = "NGAV" THEN [currency |-> total_npv]
                 ELSE IF t = "NLR" THEN [fixed2 |-> notional_leverage_ratio]
                 ELSE IF t = "Standard Leverage Ratio" THEN [fixed2 |-> standard_leverage_ratio]
                 ELSE adf[t]]

\* the quotients without the test nlv > 0: dividing by zero raises inside the
\* try and leaves account_df as it was
WithMetricsUnguarded(adf, total_npv) ==
    IF ~({"NetLiquidation", "GrossPositionValue"} \subseteq DOMAIN adf) THEN adf
    ELSE LET nlv == safe_float_conversion(adf["NetLiquidation"])
             gross_pos_val == safe_float_conversion(adf["GrossPositionValue"])
             sgn == IF nlv < 0 THEN -1 ELSE 1
         IN  IF nlv = 0 THEN adf
             ELSE [t \in DOMAIN adf \cup {"NGAV", "NLR", "Standard Leverage Ratio"} |->
                     IF t = "NGAV" THEN [currency |-> total_npv]
                     ELSE IF t = "NLR" THEN [fixed2 |-> Format2f(sgn * total_npv, Abs(nlv))]
                     ELSE IF t = "Standard Leverage Ratio"
                          THEN [fixed2 |-> Format2f(sgn * gross_pos_val, Abs(nlv))]
                     ELSE adf[t]]

\* the two ratios with their numerators exchanged
WithMetricsSwapped(adf, total_npv) ==
    IF ~({"NetLiquidation", "GrossPositionValue"} \subseteq DOMAIN adf) THEN adf
    ELSE LET nlv == safe_float_conversion(adf["NetLiquidation"])
             gross_pos_val == safe_float_conversion(adf["GrossPositionValue"])
             notional_leverage_ratio == IF nlv > 0 THEN Format2f(gross_pos_val, nlv) ELSE 0
             standard_leverage_ratio == IF nlv > 0 THEN Format2f(total_npv, nlv) ELSE 0
         IN  [t \in DOMAIN adf \cup {"NGAV", "NLR", "Standard Leverage Ratio"} |->
                 IF t = "NGAV" THEN [currency |-> total_npv]
                 ELSE IF t = "NLR" THEN [fixed2 |-> notional_leverage_ratio]
                 ELSE IF t = "Standard Leverage Ratio" THEN [fixed2 |-> standard_leverage_ratio]
                 ELSE adf[t]]

\* lines 303-313: the rows added to account_df; a missing tag raises inside
\* the try and leaves account_df as it was
WithMetrics(adf, total_npv) ==
    IF ~({"NetLiquidation", "GrossPositionValue"} \subseteq DOMAIN adf) THEN adf
    ELSE LET nlv == safe_float_conversion(adf["NetLiquidation"])
             gross_pos_val == safe_float_conversion(adf["GrossPositionValue"])
             notional_leverage_ratio == IF nlv > 0 THEN Format2f(total_npv, nlv) ELSE 0
             standard_leverage_ratio == IF nlv > 0 THEN Format2f(gross_pos_val, nlv) ELSE 0
         IN  [t \in DOMAIN adf \cup {"NGAV", "NLR", "Standard Leverage Ratio"} |->
                 IF t = "NGAV" THEN [currency |-> total_npv]
                 ELSE IF t = "NLR" THEN [fixed2 |-> notional_leverage_ratio]
                 ELSE IF t = "Standard Leverage Ratio" THEN [fixed2 |-> standard_leverage_ratio]
                 ELSE adf[t]]

\* return None, None, None
NoResult == [status |-> "none", account_df |-> <<>>, underlying_df |-> <<>>,
             positions_by_underlying |-> EmptyDict]

Returned(adf, udf, d) ==
    [status |-> "ok", account_df |-> adf, underlying_df |-> udf,
     positions_by_underlying |-> d]

\* an empty position list reported with metrics computed from a total of 0
NoPositionsResultWithMetrics(adf) == Returned(WithMetrics(adf, 0), <<>>, EmptyDict)

\* line 170: return account_df, pd.DataFrame(), {}
NoPositionsResult(adf) == Returned(adf, <<>>, EmptyDict)

----------------------------------------------------------------------------
(* The options browser: app.py 355-462 and its wrapper 483-490 *)

\* line 410, in tenths
CallApprox(stock_price, strike) == IF stock_price > strike THEN ItmDelta ELSE OtmDelta

\* line 427, in tenths
PutApprox(stock_price, strike) == IF stock_price < strike THEN 0 - ItmDelta ELSE 0 - OtmDelta

\* lines 405-411 and 422-428: delta and gamma of one contract; with no model
\* greeks the comparison with a stock price of None raises
ChainGreeks(right, stock_price, strike, tk) ==
    IF tk.modelGreeks # None
    THEN [raised |-> FALSE, delta |-> tk.modelGreeks[1].delta,
          gamma |-> tk.modelGreeks[1].gamma, approx |-> FALSE]
    ELSE IF stock_price = None
    THEN [raised |-> TRUE, delta |-> 0, gamma |-> 0, approx |-> TRUE]
    ELSE [raised |-> FALSE,
          delta |-> IF right = "C" THEN CallApprox(stock_price[1], strike)
                    ELSE PutApprox(stock_price[1], strike),
          gamma |-> DefaultGamma, approx |-> TRUE]

\* lines 431-432: (price / stock_price) * 100 if stock_price > 0 else 0, as
\* the text f"{pct:.2f}%" in hundredths
ChainPct(stock_price, tk) ==
    IF stock_price = None THEN [raised |-> TRUE, pct |-> 0]
    ELSE IF stock_price[1] <= 0 THEN [raised |-> FALSE, pct |-> 0]
    ELSE IF tk.marketPrice = None THEN [raised |-> TRUE, pct |-> 0]
    ELSE [raised |-> FALSE, pct |-> Format2f(tk.marketPrice[1] * 100, stock_price[1])]

\* lines 435-436: the price less the intrinsic value when in the money
ChainDiff(right, stock_price, strike, tk) ==
    IF stock_price = None THEN [raised |-> TRUE, diff |-> None]
    ELSE LET itm == IF right = "C" THEN stock_price[1] > strike ELSE stock_price[1] < strike
             intrinsic == IF right = "C" THEN stock_price[1] - strike ELSE strike - stock_price[1]
         IN  IF ~itm THEN [raised |-> FALSE, diff |-> tk.marketPrice]
             ELSE IF tk.marketPrice = None THEN [raised |-> TRUE, diff |-> None]
             ELSE [raised |-> FALSE, diff |-> Some(tk.marketPrice[1] - intrinsic)]

\* lines 438-460: the entry appended to calls or puts (the columns Bid, Ask
\* and Last copy the ticker and are left out)
ChainRow(right, stock_price, strike, tk) ==
    LET g == ChainGreeks(right, stock_price, strike, tk)
        p == ChainPct(stock_price, tk)
        d == ChainDiff(right, stock_price, strike, tk)
    IN  [raised |-> g.raised \/ p.raised \/ d.raised,
         row |-> [Strike |-> strike, Price |-> tk.marketPrice, Delta |-> g.delta,
                  Gamma |-> g.gamma, Approx |-> g.approx, Pct |-> p.pct, Diff |-> d.diff]]

\* return None, None, None
NoOptions == [status |-> "none", stock_price |-> None, calls |-> <<>>, puts |-> <<>>]

----------------------------------------------------------------------------
(* Inputs *)

Opt(S) == {None} \cup {Some(v) : v \in S}

Tickers ==
    [marketPrice : Opt({0, 4, 100}), last : Opt({-1, 6}),
     bid : Opt({-1, 3}), ask : Opt({-3, 5})]

NoTicker == [marketPrice |-> None, last |-> None, bid |-> None, ask |-> None]

\* the ticker of an option contract: its market price, its model greeks when
\* first read (line 239) and when read again after the calculation (line 251)
OptionTickers ==
    {ot \in [marketPrice : Opt({-1, 2}), modelGreeks : Opt({-5, -20}), modelGreeksAfter : Opt({9})] :
        ot.modelGreeks # None => ot.modelGreeksAfter = None}

NoOptionTicker == [marketPrice |-> None, modelGreeks |-> None, modelGreeksAfter |-> None]

\* contract.multiplier is 100 or 10 for an option and empty (0) otherwise
StockPositions ==
    [secType : {"STK"}, symbol : Symbols, position : {-1, 2}, avgCost : {0, 6},
     right : {""}, strike : {0}, multiplier : {0}, option_ticker : {NoOptionTicker}]

OptionPositions ==
    [secType : {"OPT"}, symbol : Symbols, position : {-1, 2}, avgCost : {1},
     right : {"C", "P"}, strike : {6}, multiplier : {100, 10},
     option_ticker : OptionTickers]

\* positions that are neither stocks nor options: a future
OtherPositions ==
    [secType : {"FUT"}, symbol : Symbols, position : {2}, avgCost : {1},
     right : {""}, strike : {0}, multiplier : {0}, option_ticker : {NoOptionTicker}]

Positions == StockPositions \cup OptionPositions \cup OtherPositions

\* the core of the inputs, of which the longer position lists are made
CoreTickers ==
    {NoTicker,
     [marketPrice |-> Some(4), last |-> Some(6), bid |-> Some(3), ask |-> Some(5)],
     [marketPrice |-> None, last |-> Some(6), bid |-> None, ask |-> None]}

CorePositions ==
    {p \in Positions :
        \/ p.secType = "STK" /\ (p.symbol = "X" \/ (p.position = 2 /\ p.avgCost = 6))
        \/ p.secType = "FUT" /\ p.symbol = "X"
        \/ /\ p.secType = "OPT"
           /\ p.symbol = "X"
           /\ p.option_ticker.modelGreeksAfter = None
           /\ (p.option_ticker.marketPrice # Some(2) =>
                    p.right = "C" /\ p.position = 2 /\ p.option_ticker.modelGreeks = None)
           /\ p.option_ticker.modelGreeks \in {None, Some(-5)}
           /\ (p.option_ticker.modelGreeks # None => p.right = "C" /\ p.position = 2)
           /\ (p.multiplier # 100 =>
                    /\ p.right = "C" /\ p.position = 2
                    /\ p.option_ticker.modelGreeks = None
                    /\ p.option_ticker.marketPrice = Some(2))}

SeqsUpTo(S, n) == UNION {[1..k -> S] : k \in 0..n}

AccountSummaries ==
    {<<>>} \cup
    {[t \in {"NetLiquidation", "GrossPositionValue", "BuyingPower"} |->
        IF t = "NetLiquidation" THEN nlv
        ELSE IF t = "GrossPositionValue" THEN <<"2", "0">> ELSE <<"5">>] :
        nlv \in {<<"1", "0">>, <<"0">>, <<"-", "5">>, <<"1", ",", "0", "0", "0">>}} \cup
    {[t \in {"GrossPositionValue", "BuyingPower"} |->
        IF t = "GrossPositionValue" THEN <<"2", "0">> ELSE <<"5">>]} \cup
    {[t \in {"NetLiquidation", "BuyingPower"} |->
        IF t = "NetLiquidation" THEN <<"1", "0">> ELSE <<"5">>]}

NormalAccount ==
    [t \in {"NetLiquidation", "GrossPositionValue", "BuyingPower"} |->
        IF t = "NetLiquidation" THEN <<"1", "0">>
        ELSE IF t = "GrossPositionValue" THEN <<"2", "0">> ELSE <<"5">>]

StrikeSet == {5, 6, 8}

\* sorted(chain.strikes): ascending, no strike twice
StrikeLists ==
    {st \in SeqsUpTo(StrikeSet, MaxStrikes) : \A i \in 1..(Len(st) - 1) : st[i] < st[i + 1]}

\* the stock's market price and the SMART chain the broker holds for the ticker
ChainRequests ==
    [stock_price : Opt({0, 6, 7}), has_chain : BOOLEAN, strikes : StrikeLists]

\* the ticker of one option of the chain; model greeks are (delta in tenths,
\* gamma in hundredths); -2 is the broker's mark of a value not computed
ChainTickers ==
    [marketPrice : Opt({2}),
     modelGreeks : Opt({[delta |-> 5, gamma |-> 2], [delta |-> -20, gamma |-> -200]})]

\* every portfolio of one position, over every ticker of its symbol
InitSingle ==
    /\ upstream = "ok"
    /\ chain_request = None
    /\ account_summary = NormalAccount
    /\ \E p \in Positions, t \in Tickers :
          /\ positions = <<p>>
          /\ quotes = [s \in Symbols |-> IF s = p.symbol THEN t ELSE NoTicker]

\* every portfolio of at most MaxPositions core positions
InitCore ==
    /\ upstream = "ok"
    /\ chain_request = None
    /\ account_summary \in AccountSummaries
    /\ positions \in SeqsUpTo(CorePositions, MaxPositions)
    /\ quotes \in [Symbols -> CoreTickers]

\* every request of the options browser, beside a pass with nothing to read
InitBrowser ==
    /\ upstream = "ok"
    /\ chain_request \in {Some(r) : r \in {c \in ChainRequests : c.has_chain \/ c.strikes = <<>>}}
    /\ account_summary = <<>>
    /\ positions = <<>>
    /\ quotes = [s \in Symbols |-> NoTicker]

\* a stock lot and a long call of one underlying, in either order, the
\* underlying quoted at its last price
ScenarioStock ==
    [secType |-> "STK", symbol |-> "X", position |-> 100, avgCost |-> 45,
     right |-> "", strike |-> 0, multiplier |-> 0, option_ticker |-> NoOptionTicker]

ScenarioCall ==
    [secType |-> "OPT", symbol |-> "X", position |-> 2, avgCost |-> 1,
     right |-> "C", strike |-> 40, multiplier |-> 100,
     option_ticker |-> [marketPrice |-> Some(2), modelGreeks |-> None,
                        modelGreeksAfter |-> None]]

ScenarioTickers == [marketPrice : Opt({50}), last : {Some(50)}, bid : {None}, ask : {None}]

ScenarioAccount ==
    [t \in {"NetLiquidation", "GrossPositionValue", "BuyingPower"} |->
        IF t = "NetLiquidation" THEN <<"6", "0", "0", "0", "0">>
        ELSE IF t = "GrossPositionValue" THEN <<"2", "0">> ELSE <<"5">>]

InitScenario ==
    /\ upstream = "ok"
    /\ chain_request = None
    /\ account_summary = ScenarioAccount
    /\ positions \in {<<ScenarioStock, ScenarioCall>>, <<ScenarioCall, ScenarioStock>>}
    /\ \E t \in ScenarioTickers :
          quotes = [s \in Symbols |-> IF s = "X" THEN t ELSE NoTicker]

\* a broker that holds an account and maybe a position and fails one of the
\* two requests: accountSummaryAsync (line 151) or positionsAsync (line 166)
InitUnreachable ==
    /\ upstream \in {"account_error", "positions_error"}
    /\ chain_request = None
    /\ account_summary = NormalAccount
    /\ positions \in SeqsUpTo({ScenarioStock}, 1)
    /\ \E t \in ScenarioTickers :
          quotes = [s \in Symbols |-> IF s = "X" THEN t ELSE NoTicker]

\* one call of get_portfolio_data or get_options_for_expiration on a connected
\* session, outside the threads of main()
NoThreads ==
    /\ program = "app"
    /\ main_pc = "off"
    /\ connected = TRUE
    /\ stop_event = FALSE
    /\ portfolio_thread = "off"
    /\ options_thread = "off"
    /\ pc = "account"
    /\ ticker_input = ""
    /\ search_button = FALSE
    /\ refresh_options = FALSE

\* what the text input of line 520 can hold
TickerInputs == {"", "X", "Y"}

\* the portfolios of the application as a whole
AppPortfolios == {<<>>, <<ScenarioStock>>, <<ScenarioCall>>, <<ScenarioStock, ScenarioCall>>}

\* the script from its start: main() of app.py (lines 712-738) with its
\* threads, or the connection of tws_simplified.py (lines 93-118); the cached
\* IB object may be connected already
InitApp ==
    /\ program \in {"app", "tws_simplified"}
    /\ main_pc = "start"
    /\ stop_event = FALSE
    /\ portfolio_thread = "unstarted"
    /\ options_thread = "unstarted"
    /\ pc = "idle"
    /\ \/ /\ connected \in BOOLEAN
          /\ positions \in AppPortfolios
          /\ ticker_input = "" /\ search_button = FALSE /\ refresh_options = FALSE
       \/ /\ connected = TRUE
          /\ program = "app"
          /\ positions = <<>>
          /\ ticker_input \in TickerInputs
          /\ search_button \in BOOLEAN
          /\ refresh_options \in BOOLEAN
    /\ upstream = "ok"
    /\ chain_request = None
    /\ account_summary = NormalAccount
    /\ quotes = [s \in Symbols |->
                    IF s = "X" THEN [marketPrice |-> None, last |-> Some(50),
                                     bid |-> None, ask |-> None]
                    ELSE NoTicker]

\* the ascending strikes 2, 4, ..., 2n of a chain
TwsStrikes(n) == [i \in 1..n |-> 2 * i]

MaxChain == 12

\* tws_simplified.py connected, with the option chain the broker holds for
\* the ticker of the Options tab and the stock's market price
InitTwsOptions ==
    /\ program = "tws_simplified"
    /\ main_pc = "connected"
    /\ connected = TRUE
    /\ stop_event = FALSE
    /\ portfolio_thread = "off"
    /\ options_thread = "off"
    /\ pc = "idle"
    /\ ticker_input = "" /\ search_button = FALSE /\ refresh_options = FALSE
    /\ upstream = "ok"
    /\ account_summary = <<>>
    /\ positions = <<>>
    /\ quotes = [s \in Symbols |-> NoTicker]
    /\ \E n \in 0..MaxChain, p \in Opt(0..(2 * MaxChain + 1)), has_chain \in BOOLEAN :
          /\ has_chain \/ n = 0
          /\ chain_request = Some([has_chain |-> has_chain, stock_price |-> p,
                                   strikes |-> TwsStrikes(n)])

\* a test script with a session connected and nothing else to do
InitTest(script) ==
    /\ program = script
    /\ main_pc = "off"
    /\ connected = TRUE
    /\ stop_event = FALSE
    /\ portfolio_thread = "off"
    /\ options_thread = "off"
    /\ pc = "idle"
    /\ ticker_input = "" /\ search_button = FALSE /\ refresh_options = FALSE
    /\ upstream = "ok"
    /\ account_summary = <<>>
    /\ positions = <<>>
    /\ quotes = [s \in Symbols |-> NoTicker]
    /\ chain_request = None

\* the state every script starts in
InitLocals ==
    /\ client_id = None
    /\ connect_clientId = None
    /\ current_ticker = ""
    /\ current_expiration = ""
    /\ chain_log = <<>>
    /\ expiration_log = <<>>
    /\ options_display = None
    /\ portfolio_metrics = None
    /\ main_content = None
    /\ chain_pc = "idle"
    /\ calls = <<>>
    /\ puts = <<>>
    /\ options_result = NoOptions
    /\ position_count = 0
    /\ positions_by_underlying = EmptyDict
    /\ underlying_price = None
    /\ delta = None
    /\ option_price = None
    /\ marketDataType = LiveData
    /\ warnings = {}
    /\ account_df = <<>>
    /\ result = NoResult
    /\ test_pc = "off"
    /\ ticker_data = None
    /\ method_log = <<>>
    /\ price_check = None
    /\ requests = <<>>

Init ==
    /\ \/ (InitSingle \/ InitCore \/ InitBrowser \/ InitScenario \/ InitUnreachable) /\ NoThreads
       \/ InitApp
       \/ InitTwsOptions
       \/ InitTest("simple_ib_test")
       \/ InitTest("minimal_market_data_test")
    /\ InitLocals

\* app.py alone, from the start of main()
InitThreads == InitApp /\ program = "app" /\ InitLocals

----------------------------------------------------------------------------
(* The pass *)

inputs == <<account_summary, positions, quotes, chain_request, upstream>>

tests == <<test_pc, ticker_data, method_log, price_check, requests>>

display == <<portfolio_metrics, main_content>>

app == <<program, main_pc, connected, client_id, connect_clientId, stop_event,
         portfolio_thread>>

options_ui == <<ticker_input, search_button, refresh_options>>

options_loop == <<options_thread, current_ticker, current_expiration, chain_log,
                  expiration_log, options_display>>

browser == <<chain_pc, calls, puts, options_result>>

pass == <<pc, position_count, positions_by_underlying, underlying_price, delta,
          option_price, marketDataType, warnings, account_df, result, display>>

\* lines 151-161
FetchAccount ==
    /\ pc = "account"
    /\ IF upstream = "account_error"
       THEN /\ pc' = "done"
            /\ result' = NoResult
            /\ UNCHANGED <<warnings, account_df>>
       ELSE IF account_summary = <<>>
       THEN /\ pc' = "done"
            /\ warnings' = warnings \cup {<<"Account summary is empty">>}
            /\ result' = NoResult
            /\ UNCHANGED account_df
       ELSE /\ pc' = "positions"
            /\ account_df' = account_summary
            /\ UNCHANGED <<warnings, result>>
    /\ UNCHANGED <<tests, inputs, position_count, positions_by_underlying,
                   underlying_price, delta, option_price, marketDataType, browser,
                   display, app, options_ui, options_loop>>

\* lines 165-179
FetchPositions ==
    /\ pc = "positions"
    /\ IF upstream = "positions_error"
       THEN /\ pc' = "done"
            /\ result' = NoResult
            /\ UNCHANGED warnings
       ELSE IF positions = <<>>
       THEN /\ pc' = "done"
            /\ warnings' = warnings \cup {<<"No positions found">>}
            /\ result' = NoPositionsResult(account_df)
       ELSE /\ pc' = "loop"
            /\ UNCHANGED <<warnings, result>>
    /\ UNCHANGED <<tests, inputs, position_count, positions_by_underlying,
                   underlying_price, delta, option_price, marketDataType, account_df,
                   browser, display, app, options_ui, options_loop>>

\* the session keeps its market data type
SessionTypeKept(mdt, switched) == mdt

\* line 243: the market data type of the session after an iteration
SessionType(mdt, switched) == IF switched THEN DelayedFrozen ELSE mdt

\* lines 181-271, one position; an exception ends the pass at lines 324-328
ProcessPosition ==
    /\ pc = "loop"
    /\ position_count < Len(positions)
    /\ LET pos == positions[position_count + 1]
           it  == Iteration(positions_by_underlying, pos, quotes[pos.symbol])
       IN  /\ position_count' = position_count + 1
           /\ positions_by_underlying' = it.dict
           /\ underlying_price' = Some(it.underlying_price)
           /\ delta' = IF pos.secType = "OPT" THEN it.delta ELSE delta
           /\ option_price' = IF pos.secType = "OPT" THEN it.option_price ELSE option_price
           /\ marketDataType' = SessionType(marketDataType, it.switched)
           /\ warnings' = warnings \cup it.warnings
           /\ IF it.raised
              THEN pc' = "done" /\ result' = NoResult
              ELSE pc' = "loop" /\ UNCHANGED result
    /\ UNCHANGED <<tests, inputs, account_df, browser, display, app, options_ui, options_loop>>

\* lines 275-322
Finish ==
    /\ pc = "loop"
    /\ position_count = Len(positions)
    /\ LET underlying_df == Frame(positions_by_underlying)
           total_npv == SumNPV(underlying_df)
       IN  /\ account_df' = WithMetrics(account_df, total_npv)
           /\ result' = Returned(account_df', underlying_df, positions_by_underlying)
    /\ pc' = "done"
    /\ UNCHANGED <<tests, inputs, position_count, positions_by_underlying,
                   underlying_price, delta, option_price, marketDataType, warnings,
                   browser, display, app, options_ui, options_loop>>

\* float(text) of lines 598-602: a text with a comma is no number (ValueError)
Float(value_str) ==
    IF AllDigits(value_str) THEN Some(DigitsValue(value_str, 0))
    ELSE IF value_str # <<>> /\ Head(value_str) = "-" /\ AllDigits(Tail(value_str))
    THEN Some(0 - DigitsValue(Tail(value_str), 0))
    ELSE None

\* lines 597-617: the six metrics; all values are extracted before the first
\* one is shown, so a missing row (KeyError) or a text float() rejects leaves
\* none of them. NGAV is read back from its currency text (line 600), the
\* ratios from their two-decimal texts.
Metrics(adf) ==
    IF ~({"NetLiquidation", "GrossPositionValue", "NGAV", "NLR",
          "Standard Leverage Ratio"} \subseteq DOMAIN adf)
    THEN None
    ELSE LET nlv == Float(adf["NetLiquidation"])
             gross_pos_val == Float(adf["GrossPositionValue"])
         IN  IF nlv = None \/ gross_pos_val = None THEN None
             ELSE Some([NetLiquidationValue |-> [currency |-> nlv[1]],
                        GrossPositionValue |-> [currency |-> gross_pos_val[1]],
                        NGAV |-> [currency |-> adf["NGAV"].currency],
                        StandardLeverage |-> [fixed2 |-> adf["Standard Leverage Ratio"].fixed2],
                        NotionalLeverageRatio |-> [fixed2 |-> adf["NLR"].fixed2],
                        BuyingPower |-> IF "BuyingPower" \in DOMAIN adf
                                        THEN adf["BuyingPower"] ELSE <<"N", "/", "A">>])

\* lines 625-631: the money columns as currency texts, the price as the text
\* f"${x:.2f}" (hundredths)
FormatFrame(udf) ==
    [i \in 1..Len(udf) |->
        [udf[i] EXCEPT !.StockValue = [currency |-> @],
                       !.OptionNotionalValue = [currency |-> @],
                       !.OptionActualValue = [currency |-> @],
                       !.NPV = [currency |-> @],
                       !.UnderlyingPrice = [fixed2 |-> 100 * @]]]

\* update_portfolio_data, lines 589-636, on what the pass returned: nothing is
\* shown for None, None, None; otherwise the metrics (or the error of line
\* 619) replace what the placeholder portfolio_metrics = st.empty() held and
\* the positions table is added to main_content = st.container()
Publish ==
    /\ program = "app"
    /\ pc = "done"
    /\ pc' = "published"
    /\ IF result.status = "ok"
       THEN /\ portfolio_metrics' =
                  Some([error |-> Metrics(result.account_df) = None,
                        metrics |-> Metrics(result.account_df)])
            /\ main_content' = Append(main_content, FormatFrame(result.underlying_df))
       ELSE UNCHANGED display
    /\ UNCHANGED <<tests, inputs, position_count, positions_by_underlying,
                   underlying_price, delta, option_price, marketDataType, warnings,
                   account_df, result, browser, app, options_ui, options_loop>>

\* lines 357-378: no SMART chain ends the call with None, None, None
BrowserStart ==
    /\ program = "app"
    /\ chain_pc = "idle"
    /\ chain_request # None
    /\ IF chain_request[1].has_chain
       THEN chain_pc' = "strikes" /\ UNCHANGED options_result
       ELSE chain_pc' = "done" /\ options_result' = NoOptions
    /\ UNCHANGED <<tests, inputs, app, options_ui, options_loop, pass, calls, puts>>

\* lines 381-460, one strike; an exception ends the call at lines 488-490
BrowserStrike ==
    /\ chain_pc = "strikes"
    /\ Len(calls) < Len(chain_request[1].strikes)
    /\ \E call_ticker \in ChainTickers, put_ticker \in ChainTickers :
          LET stock_price == chain_request[1].stock_price
              strike == chain_request[1].strikes[Len(calls) + 1]
              c == ChainRow("C", stock_price, strike, call_ticker)
              p == ChainRow("P", stock_price, strike, put_ticker)
          IN  IF c.raised \/ p.raised
              THEN /\ chain_pc' = "done"
                   /\ options_result' = NoOptions
                   /\ UNCHANGED <<calls, puts>>
              ELSE /\ calls' = Append(calls, c.row)
                   /\ puts' = Append(puts, p.row)
                   /\ UNCHANGED <<chain_pc, options_result>>
    /\ UNCHANGED <<tests, inputs, app, options_ui, options_loop, pass>>

\* line 462
BrowserReturn ==
    /\ chain_pc = "strikes"
    /\ Len(calls) = Len(chain_request[1].strikes)
    /\ chain_pc' = "done"
    /\ options_result' = [status |-> "ok", stock_price |-> chain_request[1].stock_price,
                          calls |-> calls, puts |-> puts]
    /\ UNCHANGED <<tests, inputs, app, options_ui, options_loop, pass, calls, puts>>

----------------------------------------------------------------------------
(* The options of an expiration in tws_simplified.py, lines 333-460 *)

max_strikes == 10

Min(a, b) == IF a < b THEN a ELSE b

Max(a, b) == IF a > b THEN a ELSE b

\* line 365, as a 0-based index: the first strike >= stock_price, or the
\* middle of the list when there is none
MiddleIndex(strikes, stock_price) ==
    IF \E i \in 1..Len(strikes) : strikes[i] >= stock_price
    THEN (CHOOSE i \in 1..Len(strikes) :
             /\ strikes[i] >= stock_price
             /\ \A j \in 1..(i - 1) : ~(strikes[j] >= stock_price)) - 1
    ELSE Len(strikes) \div 2

\* the first max_strikes strikes of the list
LimitedStrikesFromStart(strikes, stock_price) ==
    SubSeq(strikes, 1, Min(Len(strikes), max_strikes))

\* lines 364-369: strikes[start_index:end_index]
LimitedStrikes(strikes, stock_price) ==
    LET middle_index == MiddleIndex(strikes, stock_price)
        start_index == Max(0, middle_index - max_strikes \div 2)
        end_index == Min(Len(strikes), start_index + max_strikes)
    IN  SubSeq(strikes, start_index + 1, end_index)

\* get_options_for_expiration of tws_simplified.py as a whole: no SMART
\* chain, or a comparison of a strike with a stock price of None (line 365),
\* or a row that cannot be computed end the call with None, None, None;
\* the tickers of the calls and of the puts are taken alike for all strikes
TwsOptions ==
    /\ program = "tws_simplified"
    /\ connected
    /\ chain_pc = "idle"
    /\ chain_request # None
    /\ chain_pc' = "done"
    /\ \E call_ticker \in ChainTickers, put_ticker \in ChainTickers :
          LET stock_price == chain_request[1].stock_price
              strikes == chain_request[1].strikes
          IN  IF ~chain_request[1].has_chain \/ (strikes # <<>> /\ stock_price = None)
              THEN /\ options_result' = NoOptions
                   /\ UNCHANGED <<calls, puts>>
              ELSE LET limited_strikes ==
                           IF strikes = <<>> THEN <<>>
                           ELSE LimitedStrikes(strikes, stock_price[1])
                       c == [i \in 1..Len(limited_strikes) |->
                                ChainRow("C", stock_price, limited_strikes[i], call_ticker)]
                       p == [i \in 1..Len(limited_strikes) |->
                                ChainRow("P", stock_price, limited_strikes[i], put_ticker)]
                   IN  IF \E i \in 1..Len(limited_strikes) : c[i].raised \/ p[i].raised
                       THEN /\ options_result' = NoOptions
                            /\ UNCHANGED <<calls, puts>>
                       ELSE /\ calls' = [i \in 1..Len(limited_strikes) |-> c[i].row]
                            /\ puts' = [i \in 1..Len(limited_strikes) |-> p[i].row]
                            /\ options_result' =
                                  [status |-> "ok", stock_price |-> stock_price,
                                   calls |-> calls', puts |-> puts']
    /\ UNCHANGED <<tests, inputs, pass, app, options_ui, options_loop>>

----------------------------------------------------------------------------
(* The market data test of simple_ib_test.py, lines 129-244 *)

\* the AAPL ticker as the broker fills it
TestTickers ==
    [marketPrice : Opt({4}), last : Opt({0, 6}), bid : Opt({3}), ask : Opt({5})]

\* data.get(k) of a dictionary whose values are optional numbers
DataGet(d, k) == IF k \in DOMAIN d THEN d[k] ELSE None

\* lines 142-151: the dictionary on_ticker_update stores
OnTickerUpdate(tk) ==
    [Market_Price |-> tk.marketPrice, Last |-> tk.last, Bid |-> tk.bid, Ask |-> tk.ask,
     Has_Data |-> tk.last # None \/ tk.bid # None \/ tk.ask # None]

\* lines 192-198: the dictionary Method 2 stores
ReqTickersData(tk) ==
    [Market_Price |-> tk.marketPrice, Last |-> tk.last, Bid |-> tk.bid, Ask |-> tk.ask,
     Method |-> "reqTickers"]

\* lines 215-222: the dictionary Method 3 stores
SnapshotData(tk) ==
    [Last |-> tk.last, Bid |-> tk.bid, Ask |-> tk.ask, Method |-> "Market Snapshot"]

\* lines 185 and 202: not ticker_data or not ticker_data.get('Has Data')
MethodFailed(td) ==
    td = None \/ ~("Has_Data" \in DOMAIN td[1] /\ td[1].Has_Data)

\* line 113 with lines 129-138: "Connect to IB Gateway" is pressed and the
\* market data test starts; session state keeps ticker_data of earlier runs
ConnectTest ==
    /\ program = "simple_ib_test"
    /\ connected
    /\ test_pc \in {"off", "checked"}
    /\ Len(method_log) < 3
    /\ test_pc' = "method1"
    /\ method_log' = <<>>
    /\ price_check' = None
    /\ UNCHANGED <<ticker_data, requests, inputs, browser, pass, app, options_ui,
                   options_loop>>

\* lines 158-182: reqMktData with the update event; the handler stores the
\* ticker when the event fires during the 20 waits
MethodOne ==
    /\ test_pc = "method1"
    /\ \E fired \in BOOLEAN, tk \in TestTickers :
          IF fired
          THEN /\ ticker_data' = Some(OnTickerUpdate(tk))
               /\ method_log' = Append(method_log, [method |-> "reqMktData",
                                                     data |-> ticker_data'])
          ELSE /\ ticker_data' = ticker_data
               /\ method_log' = Append(method_log, [method |-> "reqMktData", data |-> None])
    /\ test_pc' = "method2"
    /\ UNCHANGED <<price_check, requests, inputs, browser, pass, app, options_ui,
                   options_loop>>

\* lines 184-199
MethodTwo ==
    /\ test_pc = "method2"
    /\ IF MethodFailed(ticker_data)
       THEN \E tickers \in {<<>>} \cup {<<tk>> : tk \in TestTickers} :
              IF tickers # <<>>
              THEN /\ ticker_data' = Some(ReqTickersData(tickers[1]))
                   /\ method_log' = Append(method_log, [method |-> "reqTickers",
                                                         data |-> ticker_data'])
              ELSE /\ ticker_data' = ticker_data
                   /\ method_log' = Append(method_log, [method |-> "reqTickers",
                                                         data |-> None])
       ELSE UNCHANGED <<ticker_data, method_log>>
    /\ test_pc' = "method3"
    /\ UNCHANGED <<price_check, requests, inputs, browser, pass, app, options_ui,
                   options_loop>>

\* lines 201-223
MethodThree ==
    /\ test_pc = "method3"
    /\ IF MethodFailed(ticker_data)
       THEN \E tk \in TestTickers :
              /\ ticker_data' = Some(SnapshotData(tk))
              /\ method_log' = Append(method_log, [method |-> "Market Snapshot",
                                                    data |-> ticker_data'])
       ELSE UNCHANGED <<ticker_data, method_log>>
    /\ test_pc' = "final"
    /\ UNCHANGED <<price_check, requests, inputs, browser, pass, app, options_ui,
                   options_loop>>

\* lines 229-237, the price in halves: Last, else the middle of Bid and Ask,
\* else Market Price
PriceOf(data) ==
    IF Truthy(DataGet(data, "Last")) THEN Some(2 * data.Last[1])
    ELSE IF Truthy(DataGet(data, "Bid")) /\ Truthy(DataGet(data, "Ask"))
    THEN Some(data.Bid[1] + data.Ask[1])
    ELSE IF Truthy(DataGet(data, "Market_Price")) THEN Some(2 * data.Market_Price[1])
    ELSE None

\* lines 225-242: the final check reads st.session_state.ticker_data
FinalCheck ==
    /\ test_pc = "final"
    /\ price_check' = IF ticker_data = None THEN None
                      ELSE Some([read |-> ticker_data[1], price |-> PriceOf(ticker_data[1])])
    /\ test_pc' = "checked"
    /\ UNCHANGED <<ticker_data, method_log, requests, inputs, browser, pass, app,
                   options_ui, options_loop>>

----------------------------------------------------------------------------
(* Method 1 of minimal_market_data_test.py, lines 113-168 *)

\* line 122: for mdt in [3, 1, 2, 4]
MarketDataTypes == <<3, 1, 2, 4>>

\* line 136: for i in range(10)
PollsPerType == 10

NoData == [last |-> None, bid |-> None, ask |-> None]

\* what the ticker of the symbol can hold after a sleep
PolledTickers ==
    {NoData, [NoData EXCEPT !.last = Some(0)], [NoData EXCEPT !.last = Some(5)],
     [NoData EXCEPT !.bid = Some(3)], [NoData EXCEPT !.ask = Some(4)]}

\* lines 152 and 160: ticker.last or ticker.bid or ticker.ask
GotData(ticker) == Truthy(ticker.last) \/ Truthy(ticker.bid) \/ Truthy(ticker.ask)

\* the loop over the types goes through all of them, whatever the ticker holds
TypeLoopEndsAtLast(ticker, tried) == tried = Len(MarketDataTypes)

\* lines 122 and 160-161: the loop over the types ends with the last type or
\* with the break
TypeLoopEnds(ticker, tried) == GotData(ticker) \/ tried = Len(MarketDataTypes)

Last(seq) == seq[Len(seq)]

\* line 113: "Test reqMktData" is pressed with a session connected
TestReqMktData ==
    /\ program = "minimal_market_data_test"
    /\ connected
    /\ test_pc = "off"
    /\ test_pc' = "type"
    /\ requests' = <<>>
    /\ UNCHANGED <<ticker_data, method_log, price_check, inputs, browser, pass, app,
                   options_ui, options_loop>>

\* lines 122-131: the next type is set and the request is opened; the ticker
\* of the contract is the object of the earlier requests; an exception of
\* qualifyContracts ends the test at line 167
TryType ==
    /\ test_pc = "type"
    /\ Len(requests) < Len(MarketDataTypes)
    /\ LET mdt == MarketDataTypes[Len(requests) + 1] IN
          /\ marketDataType' = mdt
          /\ \E raised \in BOOLEAN :
                IF raised
                THEN /\ test_pc' = "error"
                     /\ UNCHANGED requests
                ELSE /\ test_pc' = "poll"
                     /\ requests' = Append(requests,
                            [mdt |-> mdt, polls |-> 0, cancelled |-> 0,
                             ticker |-> IF requests = <<>> THEN NoData
                                        ELSE Last(requests).ticker])
    /\ UNCHANGED <<ticker_data, method_log, price_check, inputs, browser, app,
                   options_ui, options_loop, pc, position_count,
                   positions_by_underlying, underlying_price, delta, option_price,
                   warnings, account_df, result, display>>

\* lines 136-154: one polling attempt: ib.sleep(1) lets the ticker change (or
\* raises), then the test for data that breaks out of the polling
Poll ==
    /\ test_pc = "poll"
    /\ Last(requests).polls < PollsPerType
    /\ \E raised \in BOOLEAN, tk \in PolledTickers :
          LET polled == [Last(requests) EXCEPT !.polls = @ + 1,
                                               !.ticker = IF raised THEN @ ELSE tk]
          IN  /\ requests' = [requests EXCEPT ![Len(requests)] = polled]
              /\ test_pc' = IF raised THEN "error"
                            ELSE IF GotData(tk) \/ polled.polls = PollsPerType THEN "cancel"
                            ELSE "poll"
    /\ UNCHANGED <<ticker_data, method_log, price_check, inputs, browser, pass, app,
                   options_ui, options_loop>>

\* lines 156-165: the request is cancelled, then the loop over the types
\* goes on or the final result is shown
CancelRequest ==
    /\ test_pc = "cancel"
    /\ requests' = [requests EXCEPT ![Len(requests)].cancelled = @ + 1]
    /\ test_pc' = IF TypeLoopEnds(Last(requests).ticker, Len(requests))
                  THEN "shown" ELSE "type"
    /\ UNCHANGED <<ticker_data, method_log, price_check, inputs, browser, pass, app,
                   options_ui, options_loop>>

----------------------------------------------------------------------------
(* The application: connection, main() and the portfolio thread *)

\* random.randint(1000, 9999), app.py line 86
ClientIds == {1000, 5555, 9999}

\* the clientId of ib.connect: app.py line 94 passes the literal 1,
\* tws_simplified.py line 107 passes client_id
ConnectClientId(prog, id) == IF prog = "app" THEN 1 ELSE id

DelayedData == 3

\* connect_to_ib (app.py 82-133) and connect_to_tws (tws_simplified.py
\* 93-118), as main() calls it at line 716: a session that is connected is
\* kept; otherwise an ID is drawn and shown and ib.connect succeeds or raises
Connect ==
    /\ main_pc = "start"
    /\ IF connected
       THEN /\ main_pc' = "connected"
            /\ UNCHANGED <<connected, client_id, connect_clientId, marketDataType>>
       ELSE \E id \in ClientIds, accepted \in BOOLEAN :
              /\ client_id' = Some(id)
              /\ connect_clientId' = Some(ConnectClientId(program, id))
              /\ connected' = accepted
              /\ main_pc' = IF accepted THEN "connected" ELSE "failed"
              /\ marketDataType' = IF accepted /\ program = "tws_simplified"
                                   THEN DelayedData ELSE marketDataType
    /\ UNCHANGED <<tests, inputs, browser, display, program, stop_event, portfolio_thread,
                   pc, position_count, positions_by_underlying, underlying_price,
                   delta, option_price, warnings, account_df, result, options_ui, options_loop>>

\* tws_simplified.py lines 485-486: "Fetch Portfolio Data" is pressed and
\* get_portfolio_data starts with fresh locals
FetchButton ==
    /\ program = "tws_simplified"
    /\ main_pc = "connected"
    /\ connected
    /\ pc \in {"idle", "done"}
    /\ pc' = "account"
    /\ position_count' = 0
    /\ positions_by_underlying' = EmptyDict
    /\ underlying_price' = None
    /\ delta' = None
    /\ option_price' = None
    /\ account_df' = <<>>
    /\ result' = NoResult
    /\ UNCHANGED <<tests, inputs, browser, display, app, options_ui, options_loop,
                   marketDataType, warnings>>

\* app.py lines 717-725: the threads are created and started
StartThreads ==
    /\ program = "app"
    /\ main_pc = "connected"
    /\ main_pc' = "alive"
    /\ portfolio_thread' = "head"
    /\ options_thread' = "head"
    /\ UNCHANGED <<tests, inputs, browser, pass, program, connected, client_id,
                   connect_clientId, stop_event, options_ui, current_ticker,
                   current_expiration, chain_log, expiration_log, options_display>>

\* app.py lines 731-735: KeyboardInterrupt in the loop of lines 728-730
Interrupt ==
    /\ main_pc = "alive"
    /\ main_pc' = "interrupted"
    /\ stop_event' = TRUE
    /\ connected' = FALSE
    /\ UNCHANGED <<tests, inputs, browser, pass, program, client_id, connect_clientId,
                   portfolio_thread, options_ui, options_loop>>

\* the loop never ends
LoopContinuesAlways(stop) == TRUE

\* "while not stop_event.is_set()", app.py lines 587 and 649
LoopContinues(stop) == ~stop

MaxTables == 2

\* app.py lines 587-590: the test of the loop and of the connection, and the
\* call of get_portfolio_data with fresh locals
PortfolioHead ==
    /\ portfolio_thread = "head"
    /\ IF ~LoopContinues(stop_event)
       THEN /\ portfolio_thread' = "exited"
            /\ UNCHANGED pass
       ELSE IF ~connected
       THEN /\ portfolio_thread' = "sleep"
            /\ UNCHANGED pass
       ELSE /\ Len(main_content) < MaxTables
            /\ portfolio_thread' = "pass"
            /\ pc' = "account"
            /\ position_count' = 0
            /\ positions_by_underlying' = EmptyDict
            /\ underlying_price' = None
            /\ delta' = None
            /\ option_price' = None
            /\ account_df' = <<>>
            /\ result' = NoResult
            /\ UNCHANGED <<marketDataType, warnings, display>>
    /\ UNCHANGED <<tests, inputs, browser, program, main_pc, connected, client_id,
                   connect_clientId, stop_event, options_ui, options_loop>>

\* app.py line 639: time.sleep(refresh_rate) at the end of an iteration
PortfolioSleep ==
    /\ \/ portfolio_thread = "pass" /\ pc = "published"
       \/ portfolio_thread = "sleep"
    /\ portfolio_thread' = "head"
    /\ pc' = "idle"
    /\ UNCHANGED <<tests, inputs, browser, display, program, main_pc, connected, client_id,
                   connect_clientId, stop_event, position_count,
                   positions_by_underlying, underlying_price, delta, option_price,
                   marketDataType, warnings, account_df, result, options_ui,
                   options_loop>>

----------------------------------------------------------------------------
(* The options thread: app.py 641-709 *)

Expirations == {"20250117", "20250221"}

\* what get_option_chain gives the loop: None, None or a stock price and
\* expirations, of which the slider of lines 664-669 selects one
ChainOutcomes == {None} \cup {Some(e) : e \in Expirations}

\* the chain fetched in every iteration
FetchChainAlways(ticker, last_ticker, forced) == TRUE

\* line 653: if ticker != current_ticker or refresh_options
FetchChain(ticker, last_ticker, forced) == ticker # last_ticker \/ forced

MaxFetches == 2

\* one iteration of the loop of lines 649-709, its sleep included
OptionsIteration ==
    /\ options_thread = "head"
    /\ LoopContinues(stop_event)
    /\ IF connected /\ ticker_input # "" /\ search_button
          /\ FetchChain(ticker_input, current_ticker, refresh_options)
       THEN /\ Len(chain_log) < MaxFetches
            /\ current_ticker' = ticker_input
            /\ \E chain \in ChainOutcomes :
                  /\ chain_log' = Append(chain_log, [ticker |-> ticker_input, chain |-> chain])
                  /\ IF chain # None /\ chain[1] # current_expiration
                     THEN /\ current_expiration' = chain[1]
                          /\ \E shown \in BOOLEAN :
                                /\ expiration_log' =
                                      Append(expiration_log,
                                             [ticker |-> ticker_input, expiration |-> chain[1]])
                                /\ options_display' =
                                      IF shown
                                      THEN Some([ticker |-> ticker_input, expiration |-> chain[1]])
                                      ELSE options_display
                     ELSE UNCHANGED <<current_expiration, expiration_log, options_display>>
       ELSE UNCHANGED <<current_ticker, current_expiration, chain_log, expiration_log,
                        options_display>>
    /\ UNCHANGED <<tests, inputs, browser, pass, app, options_ui, options_thread>>

\* line 649 with stop_event set: the loop and the thread end
OptionsExit ==
    /\ options_thread = "head"
    /\ ~LoopContinues(stop_event)
    /\ options_thread' = "exited"
    /\ UNCHANGED <<tests, inputs, browser, pass, app, options_ui, current_ticker,
                   current_expiration, chain_log, expiration_log, options_display>>

\* the user types another ticker symbol
Retype ==
    /\ main_pc = "alive"
    /\ \E t \in TickerInputs \ {ticker_input} : ticker_input' = t
    /\ UNCHANGED <<tests, inputs, browser, pass, app, search_button, refresh_options,
                   options_loop>>

Next ==
    \/ TestReqMktData
    \/ TryType
    \/ Poll
    \/ CancelRequest
    \/ ConnectTest
    \/ MethodOne
    \/ MethodTwo
    \/ MethodThree
    \/ FinalCheck
    \/ TwsOptions
    \/ OptionsIteration
    \/ OptionsExit
    \/ Retype
    \/ Connect
    \/ FetchButton
    \/ StartThreads
    \/ Interrupt
    \/ PortfolioHead
    \/ PortfolioSleep
    \/ FetchAccount
    \/ FetchPositions
    \/ ProcessPosition
    \/ Finish
    \/ Publish
    \/ BrowserStart
    \/ BrowserStrike
    \/ BrowserReturn

Spec == Init /\ [][Next]_vars

\* the steps of the thread running update_portfolio_data
PortfolioStep ==
    \/ PortfolioHead
    \/ PortfolioSleep
    \/ FetchAccount
    \/ FetchPositions
    \/ ProcessPosition
    \/ Finish
    \/ Publish

\* the steps of the thread running update_options_data
OptionsStep == OptionsIteration \/ OptionsExit

NextThreads ==
    \/ Connect
    \/ StartThreads
    \/ Interrupt
    \/ Retype
    \/ PortfolioStep
    \/ OptionsStep

\* app.py with its two threads; each started thread (lines 719 and 724) is
\* scheduled again and again, and its requests and sleeps return
ThreadsSpec ==
    /\ InitThreads
    /\ [][NextThreads]_vars
    /\ WF_vars(PortfolioStep)
    /\ WF_vars(OptionsStep)

----------------------------------------------------------------------------
(* The pass as a function of its inputs *)

RECURSIVE RunLoop(_, _, _)
\* the loop of lines 181-271 over the list ps, from dictionary d
RunLoop(d, ps, q) ==
    IF ps = <<>> THEN [dict |-> d, raised |-> FALSE]
    ELSE LET it == Iteration(d, Head(ps), q[Head(ps).symbol])
         IN  IF it.raised THEN [dict |-> it.dict, raised |-> TRUE]
             ELSE RunLoop(it.dict, Tail(ps), q)

\* async_get_portfolio_data, lines 145-328
PassResult(summary, ps, q) ==
    IF summary = <<>> THEN NoResult
    ELSE IF ps = <<>> THEN NoPositionsResult(summary)
    ELSE LET r == RunLoop(EmptyDict, ps, q)
             underlying_df == Frame(r.dict)
         IN  IF r.raised THEN NoResult
             ELSE Returned(WithMetrics(summary, SumNPV(underlying_df)), underlying_df, r.dict)

----------------------------------------------------------------------------
(* Claims *)

\* the position the loop body has just processed, and its underlying's ticker
CurPos == positions[position_count]

CurTicker == quotes[CurPos.symbol]

Usable(p) == p # None /\ p[1] > 0

Orders(n) == {f \in [1..n -> 1..n] : \A i, j \in 1..n : f[i] = f[j] => i = j}

Permute(ps, f) == [i \in 1..Len(ps) |-> ps[f[i]]]

KeySet(d) == {d.keys[i] : i \in 1..Len(d.keys)}

SameRecords(d1, d2) ==
    /\ KeySet(d1) = KeySet(d2)
    /\ \A k \in KeySet(d1) : Get(d1, k) = Get(d2, k)

\* C1 (as claimed): whenever the ticker's last price is present and > 0, the
\* underlying_price resolved for the position is exactly that last price,
\* whatever bid, ask and the market price are.
C1_LastPriceFirst ==
    position_count > 0 =>
        (Usable(CurTicker.last) => underlying_price = CurTicker.last)

\* C2 (as claimed): every permutation of the position list gives the same
\* record for every symbol and the same total notional value.
C2_OrderIndependent ==
    (pc = "done" /\ result.status = "ok") =>
        \A f \in Orders(Len(positions)) :
            LET r == PassResult(account_summary, Permute(positions, f), quotes)
            IN  /\ r.status = "ok"
                /\ SameRecords(r.positions_by_underlying, result.positions_by_underlying)
                /\ SumNPV(r.underlying_df) = SumNPV(result.underlying_df)

\* C3 (as claimed): the price the loop body uses for a position (multiplied
\* into the stock value, compared with the strike) is the price stored in the
\* record of the position's symbol.
C3_PriceSharedPerSymbol ==
    position_count > 0 =>
        underlying_price =
            Some(Get(positions_by_underlying, CurPos.symbol).underlying_price)

\* C4 (as claimed): every row's notional position value is the accumulated
\* stock value plus option delta-weighted shares times the underlying price,
\* and the total (the NGAV row) is the sum of the rows' values.
C4_NotionalFormula ==
    (pc = "done" /\ result.status = "ok") =>
        /\ \A i \in 1..Len(result.underlying_df) :
              LET row == result.underlying_df[i]
              IN  row.NPV = row.StockValue
                              + row.OptionNotionalSharesX100 * row.UnderlyingPrice
        /\ "NGAV" \in DOMAIN result.account_df =>
              result.account_df["NGAV"].currency = SumNPV(result.underlying_df)

\* C5 (as claimed): every price resolved for a position, and the underlying
\* price of every record, is strictly positive.
C5_PricePositive ==
    position_count > 0 =>
        /\ underlying_price[1] > 0
        /\ \A i \in 1..Len(positions_by_underlying.val) :
              positions_by_underlying.val[i].underlying_price > 0

\* C6 (as claimed): with no usable market price and no usable last price, a
\* ticker whose bid or ask is absent or not > 0 does not resolve to its mid:
\* the price is that of the next tier (average cost of a stock position, the
\* placeholder otherwise).
C6_MidNeedsBothPositive ==
    position_count > 0 =>
        LET t == CurTicker
        IN  (~Usable(t.marketPrice) /\ ~Usable(t.last)
                /\ ~(Usable(t.bid) /\ Usable(t.ask))) =>
            underlying_price =
                Some(IF CurPos.secType = "STK" THEN CurPos.avgCost ELSE PlaceholderPrice)

\* the mid of a ticker whose bid and ask are both present
QuotedMid(t) ==
    IF t.bid # None /\ t.ask # None THEN Some((t.bid[1] + t.ask[1]) \div 2) ELSE None

\* last, bid/ask mid and market price are all absent or non-positive
NoUsablePrice(t) == ~Usable(t.marketPrice) /\ ~Usable(t.last) /\ ~Usable(QuotedMid(t))

\* what the pass returns when the stock ticker of symbol s is t2 instead
ResultWith(s, t2) == PassResult(account_summary, positions, [quotes EXCEPT ![s] = t2])

\* the caller can tell from what the pass returned that the price of symbol s
\* is a fallback: no ticker with a usable price gives the same returned value
FallbackVisible(s) ==
    \A t2 \in Tickers : ~NoUsablePrice(t2) => ResultWith(s, t2) # result

RecordFields ==
    {"stock_count", "stock_value", "option_notional", "option_actual_value",
     "underlying_price"}

\* the pass has returned tables; its last position is of secType st and its
\* underlying's ticker has no usable price
FallbackCase(st) ==
    /\ pc = "done"
    /\ result.status = "ok"
    /\ position_count > 0
    /\ CurPos.secType = st
    /\ NoUsablePrice(CurTicker)

HeuristicTable(right, price, strike) ==
    IF right = "C" THEN (IF price > strike THEN 7 ELSE 3)
    ELSE (IF price < strike THEN -7 ELSE -3)

\* the option position just processed had no model greeks at either read
HeuristicCase ==
    /\ position_count > 0
    /\ CurPos.secType = "OPT"
    /\ CurPos.option_ticker.modelGreeks = None
    /\ CurPos.option_ticker.modelGreeksAfter = None

\* C9: with no model greeks the delta is 0.7 / 0.3 for a call above / not
\* above the strike and -0.7 / -0.3 for a put below / not below it, in the
\* portfolio pass and in the options browser alike, and the browser's gamma is
\* then 0.01.
C9_HeuristicTable ==
    /\ HeuristicCase =>
            delta = Some(HeuristicTable(CurPos.right, underlying_price[1], CurPos.strike))
    /\ \A i \in 1..Len(calls) :
            calls[i].Approx =>
                /\ calls[i].Delta = HeuristicTable("C", chain_request[1].stock_price[1],
                                                   calls[i].Strike)
                /\ calls[i].Gamma = 1
    /\ \A i \in 1..Len(puts) :
            puts[i].Approx =>
                /\ puts[i].Delta = HeuristicTable("P", chain_request[1].stock_price[1],
                                                  puts[i].Strike)
                /\ puts[i].Gamma = 1

\* at the money: a call gets 0.3
C9_Witness ==
    /\ HeuristicCase
    /\ CurPos.right = "C"
    /\ underlying_price = Some(CurPos.strike)
    /\ delta = Some(3)

\* C10: a ticker with model greeks gives the model delta, one without gives
\* the heuristic's, and the option is added to its record with that delta.
C10_ModelDeltaFirst ==
    (position_count > 0 /\ CurPos.secType = "OPT") =>
        LET ot == CurPos.option_ticker
        IN  /\ delta # None
            /\ ot.modelGreeks # None => delta = ot.modelGreeks
            /\ (ot.modelGreeks = None /\ ot.modelGreeksAfter # None) =>
                    delta = ot.modelGreeksAfter
            /\ HeuristicCase =>
                    delta[1] \in {7, 3, -3, -7}
            /\ position_count = 1 =>
                    10 * positions_by_underlying.val[1].option_notional =
                        Abs(delta[1]) * 100 * CurPos.position

C10_Witness ==
    /\ position_count = 1
    /\ CurPos.secType = "OPT"
    /\ CurPos.right = "P"
    /\ CurPos.option_ticker.modelGreeks = Some(-5)
    /\ underlying_price = Some(4)
    /\ delta = Some(-5)
    /\ positions_by_underlying.val[1].option_notional = 100

\* C11 (as claimed): every delta that greek resolution produces, in the
\* portfolio pass and in the option chain, lies in [-1, 1] (tenths: -10..10)
\* and every gamma is >= 0, for model greeks as well as for the heuristic.
C11_GreeksInRange ==
    /\ delta # None => delta[1] \in -10..10
    /\ \A i \in 1..Len(calls) :
            calls[i].Delta \in -10..10 /\ calls[i].Gamma >= 0
    /\ \A i \in 1..Len(puts) :
            puts[i].Delta \in -10..10 /\ puts[i].Gamma >= 0

\* C12 (as claimed): an option position adds |delta| x contractMultiplier x
\* quantity to the option notional of its underlying, contractMultiplier being
\* the multiplier of the position's own contract (delta in tenths, so both
\* sides are taken times DeltaScale); stated for the first position of a pass,
\* whose record starts at zero.
C12_OwnMultiplier ==
    (position_count = 1 /\ CurPos.secType = "OPT" /\ delta # None) =>
        DeltaScale * positions_by_underlying.val[1].option_notional =
            Abs(delta[1]) * CurPos.multiplier * CurPos.position

\* C13 (as claimed): after any sequence of positions the option actual value
\* of every underlying record is >= 0, whatever market price the option
\* quotes carry.
C13_ActualValueNonNegative ==
    \A i \in 1..Len(positions_by_underlying.keys) :
        positions_by_underlying.val[i].option_actual_value >= 0

\* the stock positions of symbol sym processed so far
StockLots(sym) ==
    {j \in 1..position_count :
        positions[j].secType = "STK" /\ positions[j].symbol = sym}

\* the price the pass resolved for lot j
LotPrice(j) == ResolveUnderlyingPrice(quotes[positions[j].symbol], positions[j])

RECURSIVE SumQuantity(_)
SumQuantity(S) ==
    IF S = {} THEN 0
    ELSE LET j == CHOOSE x \in S : TRUE
         IN  positions[j].position + SumQuantity(S \ {j})

RECURSIVE SumQuantityTimesPrice(_)
SumQuantityTimesPrice(S) ==
    IF S = {} THEN 0
    ELSE LET j == CHOOSE x \in S : TRUE
         IN  positions[j].position * LotPrice(j) + SumQuantityTimesPrice(S \ {j})

\* C14: at every point of a pass the stock count of an underlying is the sum
\* of the quantities of its stock lots processed so far and its stock value
\* the sum of quantity x price over those lots, the price being the one
\* resolved for each lot; no lot replaces another and a short lot subtracts.
C14_LotsAccumulate ==
    \A i \in 1..Len(positions_by_underlying.keys) :
        LET lots == StockLots(positions_by_underlying.keys[i])
        IN  /\ positions_by_underlying.val[i].stock_count = SumQuantity(lots)
            /\ positions_by_underlying.val[i].stock_value = SumQuantityTimesPrice(lots)

\* a long lot of 2 and then a short lot of 1 of the same symbol, both at 6
C14_Witness ==
    /\ position_count = 2
    /\ positions[1].secType = "STK" /\ positions[1].position = 2
    /\ positions[2].secType = "STK" /\ positions[2].position = -1
    /\ positions[1].symbol = positions[2].symbol
    /\ LotPrice(1) = 6 /\ LotPrice(2) = 6
    /\ positions_by_underlying.val[1].stock_count = 1
    /\ positions_by_underlying.val[1].stock_value = 6

\* a pass that went through all its positions and returned its frames, on an
\* account summary that has the two tags of lines 303-304
Computed ==
    /\ pc = "done"
    /\ result.status = "ok"
    /\ positions # <<>>
    /\ {"NetLiquidation", "GrossPositionValue"} \subseteq DOMAIN account_summary

NetLiquidationValue == safe_float_conversion(account_summary["NetLiquidation"])

GrossPositionValue == safe_float_conversion(account_summary["GrossPositionValue"])

\* h (hundredths) is a nearest hundredth of num / den, den > 0
NearestHundredth(h, num, den) == 2 * Abs(100 * num - h * den) <= den

\* C15: a computed pass on a net liquidation value <= 0 has the rows of both
\* ratios (the computation did not fault) and both ratios are 0, whatever the
\* notional total and the gross position value.
C15_ZeroRatios ==
    (Computed /\ NetLiquidationValue <= 0) =>
        /\ {"NLR", "Standard Leverage Ratio"} \subseteq DOMAIN result.account_df
        /\ result.account_df["NLR"] = [fixed2 |-> 0]
        /\ result.account_df["Standard Leverage Ratio"] = [fixed2 |-> 0]

\* a net liquidation value of 0 under a notional total that is not 0
C15_Witness ==
    /\ Computed
    /\ NetLiquidationValue = 0
    /\ SumNPV(result.underlying_df) # 0
    /\ result.account_df["NLR"] = [fixed2 |-> 0]

\* C16: a computed pass on a net liquidation value > 0 stores, to two
\* decimals, the notional leverage ratio total / nlv and the standard leverage
\* ratio gross position value / nlv, the total being the sum of the notional
\* position values of the frame the same pass returns.
C16_Ratios ==
    (Computed /\ NetLiquidationValue > 0) =>
        LET total == SumNPV(result.underlying_df)
        IN  /\ {"NGAV", "NLR", "Standard Leverage Ratio"} \subseteq DOMAIN result.account_df
            /\ result.account_df["NGAV"] = [currency |-> total]
            /\ NearestHundredth(result.account_df["NLR"].fixed2, total, NetLiquidationValue)
            /\ NearestHundredth(result.account_df["Standard Leverage Ratio"].fixed2,
                                GrossPositionValue, NetLiquidationValue)

\* net liquidation "1,000", gross position value 20 and a total of 200:
\* the ratios are 0.20 and 0.02
C16_Witness ==
    /\ Computed
    /\ NetLiquidationValue = 1000
    /\ SumNPV(result.underlying_df) = 200
    /\ result.account_df["NLR"] = [fixed2 |-> 20]
    /\ result.account_df["Standard Leverage Ratio"] = [fixed2 |-> 2]

\* 100 shares of X and a long call on X (quantity 2, strike 40, multiplier
\* 100, no model greeks), X quoted at a last price of 50, net liquidation 60000
ScenarioC ==
    /\ Len(positions) = 2
    /\ \E i, j \in 1..2 : positions[i] = ScenarioStock /\ positions[j] = ScenarioCall
    /\ quotes["X"].last = Some(50)
    /\ quotes["X"].marketPrice \in {None, Some(50)}
    /\ NetLiquidationValue = 60000

\* C17: scenario C ends with a stock value of 5000, a delta of 0.7, an option
\* notional of 140 delta-weighted shares, a notional position value of
\* 5000 + 7000 = 12000 for X and a notional leverage ratio of 0.20.
C17_ScenarioC ==
    (ScenarioC /\ pc = "done") =>
        /\ result.status = "ok"
        /\ result.positions_by_underlying.keys = <<"X">>
        /\ result.positions_by_underlying.val[1].stock_value = 5000
        /\ delta = Some(7)
        /\ result.positions_by_underlying.val[1].option_notional = 140
        /\ result.underlying_df[1].NPV = 12000
        /\ result.account_df["NLR"] = [fixed2 |-> 20]

C17_Witness ==
    /\ ScenarioC
    /\ pc = "done"
    /\ positions[1] = ScenarioStock
    /\ quotes["X"].marketPrice = None
    /\ result.underlying_df[1].OptionNotionalValue = 7000
    /\ result.account_df["NLR"] = [fixed2 |-> 20]

\* the symbols that have a stock or an option position in the list
AggregatedSymbols ==
    {positions[j].symbol : j \in {n \in 1..Len(positions) :
                                    positions[n].secType \in {"STK", "OPT"}}}

\* C18 (as claimed): the records a pass returns are one for each symbol that
\* has at least one stock or option position and none for any other symbol.
C18_OneRecordPerAggregatedSymbol ==
    (pc = "done" /\ result.status = "ok") =>
        LET keys == result.positions_by_underlying.keys
        IN  /\ \A i, j \in 1..Len(keys) : keys[i] = keys[j] => i = j
            /\ {keys[i] : i \in 1..Len(keys)} = AggregatedSymbols

\* C19 (as claimed): a pass that has an account summary and positions ends
\* with its frames and a record for the symbol of every position, whatever
\* price or greek data the quotes lack and whatever the account totals are.
C19_NeverAborts ==
    (pc = "done" /\ account_summary # <<>> /\ positions # <<>>) =>
        /\ result.status = "ok"
        /\ \A j \in 1..Len(positions) :
                HasKey(result.positions_by_underlying, positions[j].symbol)

\* the account totals or the position list are empty or cannot be fetched
Unavailable ==
    upstream # "ok" \/ account_summary = <<>> \/ positions = <<>>

MetricRows == {"NGAV", "NLR", "Standard Leverage Ratio"}

\* C20: a pass whose account totals or position list are empty or unreachable
\* returns no leverage ratio, no notional total and no row of any underlying,
\* and the caller shows no metrics for it; a pass on an account and positions
\* that returns its frames returns at least one row, so the two outcomes
\* differ in what the caller receives.
C20_NoResultWhenUnavailable ==
    /\ (pc \in {"done", "published"} /\ Unavailable) =>
            /\ result.underlying_df = <<>>
            /\ DOMAIN result.account_df \cap MetricRows = {}
            /\ portfolio_metrics # None => portfolio_metrics[1].metrics = None
    /\ (pc \in {"done", "published"} /\ ~Unavailable /\ result.status = "ok") =>
            result.underlying_df # <<>>

\* an account with no positions: the account table comes back without the
\* three rows, the caller shows an empty table and no metrics
C20_Witness ==
    /\ pc = "published"
    /\ upstream = "ok"
    /\ account_summary = NormalAccount
    /\ positions = <<>>
    /\ result = Returned(NormalAccount, <<>>, EmptyDict)
    /\ portfolio_metrics = Some([error |-> TRUE, metrics |-> None])
    /\ main_content = Some(<<>>)

\* a pass that went through all its positions and returned its frames
ReturnedFrames ==
    /\ pc = "done"
    /\ result.status = "ok"
    /\ positions # <<>>

\* C21 (as claimed): when the account summary is not empty and lacks
\* NetLiquidation or GrossPositionValue, the metrics are computed with the
\* missing value as 0: the three rows are present, the standard leverage
\* ratio is 0 and, with NetLiquidation missing, so is the notional one.
C21_AbsentTotalIsZero ==
    (ReturnedFrames /\ ~({"NetLiquidation", "GrossPositionValue"} \subseteq DOMAIN account_summary)) =>
        /\ MetricRows \subseteq DOMAIN result.account_df
        /\ result.account_df["Standard Leverage Ratio"] = [fixed2 |-> 0]
        /\ "NetLiquidation" \notin DOMAIN account_summary =>
                result.account_df["NLR"] = [fixed2 |-> 0]

\* C30: the account table a pass returns has the three derived rows or none
\* of them; when NetLiquidation or GrossPositionValue cannot be read it has
\* none, the frame returned is the one built from the records and every row
\* of the account summary is in the table as it was.
C30_RowsAllOrNone ==
    ReturnedFrames =>
        /\ DOMAIN result.account_df \cap MetricRows \in {{}, MetricRows}
        /\ \A t \in DOMAIN account_summary : result.account_df[t] = account_summary[t]
        /\ ~({"NetLiquidation", "GrossPositionValue"} \subseteq DOMAIN account_summary) =>
                /\ DOMAIN result.account_df = DOMAIN account_summary
                /\ result.underlying_df = Frame(result.positions_by_underlying)
                /\ result.underlying_df # <<>>

\* GrossPositionValue missing beside a stock position
C30_Witness ==
    /\ ReturnedFrames
    /\ DOMAIN account_summary = {"NetLiquidation", "BuyingPower"}
    /\ result.account_df = account_summary
    /\ Len(result.underlying_df) = 1
    /\ result.underlying_df[1].StockCount = 2

\* C24 (as claimed): the clientId passed to ib.connect is the client ID that
\* was drawn from 1000..9999 and shown to the user.
C24_ClientIdAsDisplayed ==
    connect_clientId # None =>
        /\ connect_clientId = client_id
        /\ client_id[1] \in 1000..9999

\* C22 (as claimed): what a pass publishes is what the pass computes from
\* its own inputs alone, and the table it publishes replaces the table of the
\* pass before, so the container never shows the records of two passes.
C22_PublicationReplaces ==
    /\ (pc = "published" /\ result.status = "ok") =>
            /\ upstream = "ok"
            /\ result = PassResult(account_summary, positions, quotes)
            /\ main_content[Len(main_content)] = FormatFrame(result.underlying_df)
    /\ Len(main_content) <= 1

\* the step of a pass that reads an option whose ticker has no model greeks
MeetsOptionWithoutGreeks ==
    /\ pc = "loop"
    /\ position_count' = position_count + 1
    /\ positions[position_count'].secType = "OPT"
    /\ positions[position_count'].option_ticker.modelGreeks = None

\* how a step of app.py or of tws_simplified.py treats the session's type
TypeStep ==
    program \in {"app", "tws_simplified"} =>
        /\ MeetsOptionWithoutGreeks => marketDataType' = DelayedFrozen
        /\ marketDataType = DelayedFrozen => marketDataType' = DelayedFrozen
        /\ marketDataType' # marketDataType =>
               \/ MeetsOptionWithoutGreeks
               \/ main_pc = "start" /\ program = "tws_simplified"
                     /\ marketDataType' = DelayedData

C27_FetchOnlyOnChange ==
    [][/\ chain_log' # chain_log =>
              /\ ticker_input # current_ticker \/ refresh_options
              /\ Len(chain_log') = Len(chain_log) + 1
              /\ chain_log'[Len(chain_log')].ticker = ticker_input
              /\ current_ticker' = ticker_input
       /\ expiration_log' # expiration_log =>
              /\ chain_log' # chain_log
              /\ expiration_log'[Len(expiration_log')].expiration # current_expiration
              /\ current_expiration' = expiration_log'[Len(expiration_log')].expiration
       /\ (/\ chain_log # <<>>
           /\ chain_log[Len(chain_log)].chain = None
           /\ chain_log[Len(chain_log)].ticker = ticker_input
           /\ ~refresh_options) => chain_log' = chain_log]_vars

\* the chain of X could not be fetched, X is still entered and the loop is
\* about to run again
C27_Witness ==
    /\ chain_log = <<[ticker |-> "X", chain |-> None]>>
    /\ ticker_input = "X"
    /\ current_ticker = "X"
    /\ search_button
    /\ ~refresh_options
    /\ connected
    /\ ~stop_event
    /\ options_thread = "head"

\* what a step may do to the loops and to stop_event
StopStep ==
    /\ (stop_event /\ portfolio_thread = "head") =>
           portfolio_thread' \in {"head", "exited"}
    /\ (stop_event /\ options_thread = "head") =>
           /\ options_thread' \in {"head", "exited"}
           /\ UNCHANGED <<current_ticker, current_expiration, chain_log,
                          expiration_log, options_display>>
    /\ portfolio_thread = "exited" => portfolio_thread' = "exited"
    /\ options_thread = "exited" => options_thread' = "exited"
    /\ stop_event => stop_event'
    /\ (~stop_event /\ stop_event') =>
           /\ main_pc = "alive"
           /\ main_pc' = "interrupted"
           /\ ~connected'

\* C28: with stop_event set neither loop starts an iteration, and each thread
\* ends once the iteration and sleep it is in are over; a thread that ended
\* stays so; stop_event is set only by the KeyboardInterrupt handler of
\* main(), never cleared, and that handler leaves the session disconnected.
C28_StopEndsLoops ==
    /\ [][StopStep]_vars
    /\ stop_event ~> (portfolio_thread = "exited" /\ options_thread = "exited")

\* interrupted while the second pass was running: both threads have ended
C28_Witness ==
    /\ stop_event
    /\ main_pc = "interrupted"
    /\ ~connected
    /\ portfolio_thread = "exited"
    /\ options_thread = "exited"
    /\ Len(main_content) = 2
    /\ chain_log # <<>>

\* the strikes of the rows of a list of calls or puts
StrikesOf(rows) == [i \in 1..Len(rows) |-> rows[i].Strike]

\* C26: what get_options_for_expiration of tws_simplified.py returns has at
\* most 10 calls and as many puts, their strikes are the same run of
\* consecutive entries of the ascending strike list, and when some strike is
\* >= the stock price the first such strike is among them.
C26_StrikeSlice ==
    (program = "tws_simplified" /\ chain_pc = "done" /\ options_result.status = "ok") =>
        LET strikes == chain_request[1].strikes
            fetched == StrikesOf(options_result.calls)
            above == {j \in 1..Len(strikes) : strikes[j] >= chain_request[1].stock_price[1]}
        IN  /\ Len(fetched) <= 10
            /\ StrikesOf(options_result.puts) = fetched
            /\ \E k \in 0..Len(strikes) :
                  /\ k + Len(fetched) <= Len(strikes)
                  /\ \A i \in 1..Len(fetched) : fetched[i] = strikes[k + i]
            /\ (strikes # <<>> /\ above # {}) =>
                  \E i \in 1..Len(fetched) :
                     /\ fetched[i] >= chain_request[1].stock_price[1]
                     /\ \A j \in above : strikes[j] >= fetched[i]

\* twelve strikes of which the eleventh is the first at or above the stock
\* price: the seven strikes from the sixth on are fetched
C26_Witness ==
    /\ program = "tws_simplified"
    /\ chain_pc = "done"
    /\ options_result.status = "ok"
    /\ Len(chain_request[1].strikes) = 12
    /\ chain_request[1].stock_price = Some(21)
    /\ StrikesOf(options_result.calls) = <<12, 14, 16, 18, 20, 22, 24>>

\* minimal_market_data_test.py alone, connected
InitMethodOne == InitTest("minimal_market_data_test") /\ InitLocals

\* the handler of "Test reqMktData"
NextMethodOne ==
    \/ TestReqMktData
    \/ TryType
    \/ Poll
    \/ CancelRequest

\* minimal_market_data_test.py with the button pressed: the script is one
\* thread whose requests and sleeps return
MethodOneSpec ==
    /\ InitMethodOne
    /\ [][NextMethodOne]_vars
    /\ WF_vars(NextMethodOne)

\* a ticker that carries a last, bid or ask value
Carries(data) ==
    DataGet(data, "Last") # None \/ DataGet(data, "Bid") # None \/ DataGet(data, "Ask") # None

\* C23: whenever Method 2 (reqTickers) of simple_ib_test.py got a ticker that
\* carries a last, bid or ask value, Method 3 (the market snapshot) is not run
\* and the final price check reads the data Method 2 stored.
C23_SnapshotOnlyAfterFailure ==
    \A i \in 1..Len(method_log) :
        (/\ method_log[i].method = "reqTickers"
         /\ method_log[i].data # None
         /\ Carries(method_log[i].data[1])) =>
            /\ \A j \in 1..Len(method_log) : method_log[j].method # "Market Snapshot"
            /\ test_pc = "checked" =>
                  (price_check # None /\ price_check[1].read = method_log[i].data[1])

\* last, bid or ask of the ticker is available
Available(ticker) ==
    \E v \in {ticker.last, ticker.bid, ticker.ask} : v # None /\ v[1] # 0

RECURSIVE TotalPolls(_)
TotalPolls(reqs) ==
    IF reqs = <<>> THEN 0 ELSE reqs[1].polls + TotalPolls(Tail(reqs))

\* the requests are for the types 3, 1, 2, 4 in this order, each polled at
\* most 10 times and 40 times in all; a type is tried only when no earlier
\* one had data and polling stops with the data; every request is cancelled
\* once before the next type is tried or the result is shown, unless an
\* exception ended the test
MethodOneState ==
    /\ Len(requests) <= 4
    /\ \A i \in 1..Len(requests) :
          /\ requests[i].mdt = <<3, 1, 2, 4>>[i]
          /\ requests[i].polls <= 10
          /\ i < Len(requests) => ~Available(requests[i].ticker)
          /\ requests[i].cancelled <= 1
          /\ (test_pc # "error" /\ (i < Len(requests) \/ test_pc \in {"type", "shown"})) =>
                requests[i].cancelled = 1
          /\ (i = Len(requests) /\ test_pc \in {"poll", "cancel"}) =>
                requests[i].cancelled = 0
    /\ TotalPolls(requests) <= 40
    /\ test_pc = "poll" => ~Available(Last(requests).ticker)
    /\ test_pc = "shown" =>
          /\ requests # <<>>
          /\ Available(Last(requests).ticker) \/ Len(requests) = 4

\* C25: Method 1 of minimal_market_data_test.py tries the types 3, 1, 2, 4 in
\* order with at most 10 polls each, stops at the first type with last, bid
\* or ask available, cancels every request exactly once on the paths without
\* exception, and ends after at most 40 polls.
C25_MethodOneTerminates ==
    /\ []MethodOneState
    /\ (test_pc = "type") ~> (test_pc \in {"shown", "error"})

\* type 3 polled ten times without data, then type 1 with a bid at its third
\* poll, and the result shown
C25_Witness ==
    /\ test_pc = "shown"
    /\ Len(requests) = 2
    /\ requests[1].polls = 10
    /\ requests[2].polls = 3
    /\ requests[2].ticker.bid = Some(3)
    /\ requests[1].cancelled = 1 /\ requests[2].cancelled = 1

====
